---- MODULE Spec2Model ----
(***************************************************************************)
(* The transactional install pipeline of pho (commands/install.go):        *)
(* InstallApps drives each InstallableApp through Download, Integrate and  *)
(* SaveConfig, around a journal of pending installations.                  *)
(*                                                                         *)
(* The repository holds two revisions of the pipeline, src/unnamed/part_001*)
(* (Download writes a temporary file and renames it) and                   *)
(* src/unnamed/part_002 (Download creates the bundle at its final path).   *)
(* The variable `build` says which of the two a behaviour runs.            *)
(*                                                                         *)
(* Spec follows the main path only.  SpecTicker adds the ticker goroutine  *)
(* that Install() starts, SpecCmd the install github command that calls    *)
(* InstallApps, SpecBatch keeps what was on disk when the batch started,   *)
(* and SpecJournal has two runs meet at the journal.  x.Index and x.Count  *)
(* are the loop index and the batch length (cur, N); of x.StartedAt only   *)
(* whether it was assigned is kept.                                        *)
(*                                                                         *)
(* Sizes are counted in chunks.  Every call that can return an error has   *)
(* both outcomes, chosen by \E ok \in BOOLEAN.                             *)
(***************************************************************************)
EXTENDS Integers, Sequences, FiniteSets, TLC

\* ---------------------------------------------------------------- bounds
MaxApps == 2
\* The size every asset of the batch declares (Asset.Size).
AssetSize == 2
\* The most a byte stream delivers, and the most one Read returns.
MaxStream == 3
MaxChunk == 2
\* The ticker stops printing an app once its PrintCycle is this high.
MaxPrintCycle == 3

Ids == {"a", "b"}
Builds == {"part_001", "part_002"}

\* ------------------------------------------------------ InstallableAppStatus
InstallableAppFailed == 0
InstallableAppDownloading == 1
InstallableAppIntegrating == 2
InstallableAppInstalled == 3

\* A path that holds no file.
NoFile == 0 - 1

VARIABLES
  build,        \* which revision of the pipeline runs
  alive,        \* FALSE once the process was killed
  apps,         \* the batch: a sequence of [id |-> app id]
  cur,          \* InstallApps' loop index i (1-based)
  pc,           \* the statement the main path is at
  success,      \* InstallApps' local success
  ret,          \* InstallApps' return value, <<>> before it returns
  status,       \* x.Status, per app
  progress,     \* x.Progress, per app
  printCycle,   \* x.PrintCycle, per app
  started,      \* x.StartedAt was assigned, per app
  config,       \* SaveConfig's local config.Installed
  journal,      \* ids of Transactions.PendingInstallations, on disk
  installed,    \* ids of the global registry config.Installed, on disk
  dirs,         \* ids whose Paths.Dir exists
  desktopDir,   \* the parent directory of Paths.Desktop exists
  tempFile,     \* size of the temporary download file, per id
  bundle,       \* size of the file at Paths.AppImage, per id
  bundleBy,     \* the app (index) whose Download put that file there, 0: none
  execBit,      \* ids whose bundle is mode 0755
  scratch,      \* ids whose <Paths.Dir>/temp exists
  icon,         \* ids whose icon file exists
  desktop,      \* ids whose desktop-entry file exists
  appConfig,    \* ids whose app config file exists
  sourceConfig, \* ids whose source config file exists
  touched,      \* per app: its install has changed the filesystem
  copied,       \* per app: io.Copy returned without error
  scratchBy,    \* the app (index) whose Integrate made <Paths.Dir>/temp, 0: none
  stages,       \* per app: the stages that returned success, in order
  start,        \* what was on disk when the run began, <<>> when not kept
  tickPc,       \* per app: where the ticker goroutine of its Install() is
  tickRead,     \* per app: the PrintCycle that goroutine's PrintStatus read
  cmdPc,        \* the statement the install command's Action is at
  cmdOut,       \* what the Action returned: "nil" or "error"; "" before
  assumeYes,    \* the --assume-yes flag
  chk,          \* how each check of the Action went, "unset" before it
  jlock,        \* the run holding the journal's lock, 0: free
  jpc,          \* per run: where its UpdateTransactions call is, and its mutator
  jlocal        \* per run: the journal as that call decoded it

mem == <<apps, cur, pc, success, ret, status, progress, printCycle, started, config>>
disk == <<journal, installed, dirs, desktopDir, tempFile, bundle, execBit,
          scratch, icon, desktop, appConfig, sourceConfig>>
hist == <<bundleBy, touched, copied, scratchBy, stages>>
tick == <<tickPc, tickRead>>
cmd == <<cmdPc, cmdOut, assumeYes, chk>>
jrn == <<jlock, jpc, jlocal>>
env == <<build, start, tick, cmd, jrn>>
vars == <<env, alive, mem, disk, hist>>

N == Len(apps)
Id(i) == apps[i].id

\* ------------------------------------------------------------------ Init
\* What an earlier run left behind for an app id.
Histories == {"clean", "installed", "failedDownload", "failedDeflate"}

Batches == UNION {[1..n -> [id : Ids]] : n \in 1..MaxApps}

\* The two runs whose journal updates meet.
Runs == {1, 2}
\* A run outside UpdateTransactions; last is the mutation it completed.
Idle(last) == [at |-> "idle", op |-> "none", last |-> last]

\* The checks of the install command's Action, none made yet.
Unchecked ==
  [nargs |-> "unset", url |-> "unset", id |-> "unset", release |-> "unset",
   match |-> "unset", reinstall |-> "unset", confirm |-> "unset"]

\* The state a run begins in: the batch is one of B, the main path is at p,
\* the command's Action at c, --assume-yes is one of Y, and `start` keeps
\* what is on disk when keep is TRUE.
Start(B, p, c, Y, keep) ==
  /\ build \in Builds
  /\ alive = TRUE
  /\ apps \in B
  /\ cur = 1
  /\ pc = p
  /\ cmdPc = c
  /\ cmdOut = ""
  /\ assumeYes \in Y
  /\ chk = Unchecked
  /\ jlock = 0
  /\ jpc = [r \in Runs |-> Idle("none")]
  /\ jlocal = [r \in Runs |-> {}]
  /\ tickPc = [i \in DOMAIN apps |-> "wait"]
  /\ tickRead = [i \in DOMAIN apps |-> 0]
  /\ success = 0
  /\ ret = <<>>
  /\ status = [i \in DOMAIN apps |-> InstallableAppFailed]
  /\ progress = [i \in DOMAIN apps |-> 0]
  /\ printCycle = [i \in DOMAIN apps |-> 0]
  /\ started = [i \in DOMAIN apps |-> FALSE]
  /\ config = {}
  /\ \E h \in [Ids -> Histories] :
       /\ journal = {id \in Ids : h[id] \in {"failedDownload", "failedDeflate"}}
       /\ installed = {id \in Ids : h[id] = "installed"}
       /\ dirs = {id \in Ids : h[id] # "clean"}
       /\ desktopDir = (\E id \in Ids : h[id] # "clean")
       /\ bundle = [id \in Ids |->
            IF h[id] \in {"installed", "failedDeflate"} THEN AssetSize
            ELSE IF h[id] = "failedDownload" /\ build = "part_002" THEN 1
            ELSE NoFile]
       /\ execBit = {id \in Ids : h[id] \in {"installed", "failedDeflate"}}
       /\ scratch = {id \in Ids : h[id] = "failedDeflate"}
       /\ icon = {id \in Ids : h[id] = "installed"}
       /\ desktop = {id \in Ids : h[id] = "installed"}
       /\ appConfig = {id \in Ids : h[id] = "installed"}
       /\ sourceConfig = {id \in Ids : h[id] = "installed"}
  /\ tempFile = [id \in Ids |-> NoFile]
  /\ bundleBy = [id \in Ids |-> 0]
  /\ touched = [i \in DOMAIN apps |-> FALSE]
  /\ copied = [i \in DOMAIN apps |-> FALSE]
  /\ scratchBy = [id \in Ids |-> 0]
  /\ stages = [i \in DOMAIN apps |-> <<>>]
  /\ start = IF keep
               THEN [journal |-> journal, installed |-> installed,
                     scratch |-> scratch, appConfig |-> appConfig,
                     sourceConfig |-> sourceConfig, disk |-> disk]
               ELSE <<>>

\* InstallApps is called with a batch.
Init == Start(Batches, "begin", "none", {FALSE}, FALSE)

\* --------------------------------------------------------------- helpers
\* The statements of Download, Integrate and SaveConfig.
DownloadPcs == {"dl_mkdir", "dl_mkdir_desktop", "dl_create", "dl_open",
                "dl_copy", "dl_rename", "dl_chmod"}
IntegratePcs == {"in_mkdir", "in_deflate", "in_meta", "in_icon", "in_desktop"}
SaveConfigPcs == {"sc_app", "sc_source", "sc_read", "sc_save"}
InstallPcs == DownloadPcs \cup IntegratePcs \cup SaveConfigPcs

\* A Write that keeps the length of the last chunk instead of adding it.
WriteLast(p, l) == l

\* x.Write: the io.Writer half of the fan-out, counting the bytes mirrored.
Write(p, l) == p + l

\* x.PrintStatus: the only field it writes is PrintCycle.
PrintStatus(cycles, i) == [cycles EXCEPT ![i] = @ + 1]

\* core.UpdateTransactions(mutator): read, mutate, write back; on a failure
\* (read, decode or write) the journal on disk is as it was and an error is
\* returned to the caller.
UpdateTransactions(j, mutated, ok) == IF ok THEN mutated ELSE j

\* The deferred os.RemoveAll(tempDir); its result is dropped, and the tree
\* it removes is one the process has just written.
RemoveAll(s, id) == s \ {id}

\* An Install that goes on to Integrate without setting x.Status.
StatusAfterDownloadSkipped == InstallableAppDownloading

\* Install's statement between Download and Integrate.
StatusAfterDownload == InstallableAppIntegrating

Stage(s) == stages' = [stages EXCEPT ![cur] = Append(@, s)]
Running(at) == alive /\ pc = at

\* ------------------------------------------------------------ InstallApps
BeginApp ==
  /\ Running("begin") /\ cur <= N
  /\ started' = [started EXCEPT ![cur] = TRUE]
  /\ status' = [status EXCEPT ![cur] = InstallableAppDownloading]
  /\ printCycle' = PrintStatus(printCycle, cur)
  /\ pc' = "register"
  /\ UNCHANGED <<env, alive, apps, cur, success, ret, progress, config, disk, hist>>

\* The result of UpdateTransactions is not looked at: Install() runs next
\* whether or not the entry was written.
RegisterPending ==
  /\ Running("register")
  /\ \E ok \in BOOLEAN :
       /\ journal' = UpdateTransactions(journal, journal \cup {Id(cur)}, ok)
       /\ IF ok THEN Stage("Register") ELSE UNCHANGED stages
  /\ pc' = "dl_mkdir"
  /\ UNCHANGED <<env, alive, apps, cur, success, ret, status, progress,
                 printCycle, started, config, installed, dirs, desktopDir,
                 tempFile, bundle, execBit, scratch, icon, desktop, appConfig,
                 sourceConfig, bundleBy, touched, copied, scratchBy>>

\* A failure path that goes on with the next app instead of leaving the loop.
InstallFailedContinues ==
  /\ Running("ret_err")
  /\ status' = [status EXCEPT ![cur] = InstallableAppFailed]
  /\ printCycle' = PrintStatus(printCycle, cur)
  /\ cur' = cur + 1
  /\ pc' = "begin"
  /\ UNCHANGED <<env, alive, apps, success, ret, progress, started, config,
                 disk, hist>>

\* A failure path that clears the pending installation before it leaves.
InstallFailedClears ==
  /\ Running("ret_err")
  /\ status' = [status EXCEPT ![cur] = InstallableAppFailed]
  /\ printCycle' = PrintStatus(printCycle, cur)
  /\ journal' = journal \ {Id(cur)}
  /\ pc' = "returned"
  /\ ret' = <<success, N - success>>
  /\ UNCHANGED <<env, alive, apps, cur, success, progress, started, config,
                 installed, dirs, desktopDir, tempFile, bundle, execBit,
                 scratch, icon, desktop, appConfig, sourceConfig, hist>>

\* x.Install() returned an error: mark, print, log, break; the loop is left
\* and InstallApps returns.
InstallFailed ==
  /\ Running("ret_err")
  /\ status' = [status EXCEPT ![cur] = InstallableAppFailed]
  /\ printCycle' = PrintStatus(printCycle, cur)
  /\ pc' = "returned"
  /\ ret' = <<success, N - success>>
  /\ UNCHANGED <<env, alive, apps, cur, success, progress, started, config,
                 disk, hist>>

InstallSucceeded ==
  /\ Running("ret_ok")
  /\ status' = [status EXCEPT ![cur] = InstallableAppInstalled]
  /\ printCycle' = PrintStatus(printCycle, cur)
  /\ success' = success + 1
  /\ pc' = "clear"
  /\ UNCHANGED <<env, alive, apps, cur, ret, progress, started, config,
                 disk, hist>>

ClearPending ==
  /\ Running("clear")
  /\ \E ok \in BOOLEAN :
       /\ journal' = UpdateTransactions(journal, journal \ {Id(cur)}, ok)
       /\ IF ok THEN Stage("Clear") ELSE UNCHANGED stages
  /\ cur' = cur + 1
  /\ pc' = "begin"
  /\ UNCHANGED <<env, alive, apps, success, ret, status, progress,
                 printCycle, started, config, installed, dirs, desktopDir,
                 tempFile, bundle, execBit, scratch, icon, desktop, appConfig,
                 sourceConfig, bundleBy, touched, copied, scratchBy>>

Return ==
  /\ Running("begin") /\ cur > N
  /\ pc' = "returned"
  /\ ret' = <<success, N - success>>
  /\ UNCHANGED <<env, alive, apps, cur, success, status, progress,
                 printCycle, started, config, disk, hist>>

InstallApps ==
  BeginApp \/ RegisterPending \/ InstallFailed \/ InstallSucceeded
    \/ ClearPending \/ Return

\* What the steps of Install() leave alone.
runner == <<env, alive, apps, cur, success, ret, printCycle, started>>
Fails == pc' = "ret_err"

\* --------------------------------------------------------------- Download
\* os.MkdirAll(Paths.Dir): the first change an install makes on disk.
DownloadMkdirDir ==
  /\ Running("dl_mkdir")
  /\ \E ok \in BOOLEAN :
       IF ok THEN /\ dirs' = dirs \cup {Id(cur)}
                  /\ touched' = [touched EXCEPT ![cur] = TRUE]
                  /\ pc' = "dl_mkdir_desktop"
             ELSE Fails /\ UNCHANGED <<dirs, touched>>
  /\ UNCHANGED <<runner, status, progress, config, journal, installed,
                 desktopDir, tempFile, bundle, execBit, scratch, icon, desktop,
                 appConfig, sourceConfig, bundleBy, copied, scratchBy, stages>>

\* os.MkdirAll(path.Dir(Paths.Desktop)).
DownloadMkdirDesktop ==
  /\ Running("dl_mkdir_desktop")
  /\ \E ok \in BOOLEAN :
       IF ok THEN desktopDir' = TRUE /\ pc' = "dl_create"
             ELSE Fails /\ UNCHANGED desktopDir
  /\ UNCHANGED <<runner, status, progress, config, journal, installed, dirs,
                 tempFile, bundle, execBit, scratch, icon, desktop, appConfig,
                 sourceConfig, hist>>

\* part_001: utils.CreateTempFile(Paths.AppImage), a new empty file beside
\* the final path.
DownloadCreateTemp ==
  /\ Running("dl_create") /\ build = "part_001"
  /\ \E ok \in BOOLEAN :
       IF ok THEN /\ tempFile' = [tempFile EXCEPT ![Id(cur)] = 0]
                  /\ pc' = "dl_open"
             ELSE Fails /\ UNCHANGED tempFile
  /\ UNCHANGED <<runner, status, progress, config, journal, installed, dirs,
                 desktopDir, bundle, execBit, scratch, icon, desktop, appConfig,
                 sourceConfig, hist>>

\* part_002: os.Create(Paths.AppImage) creates the final path, or truncates
\* what is there.
DownloadCreateFinal ==
  /\ Running("dl_create") /\ build = "part_002"
  /\ \E ok \in BOOLEAN :
       IF ok THEN /\ bundle' = [bundle EXCEPT ![Id(cur)] = 0]
                  /\ bundleBy' = [bundleBy EXCEPT ![Id(cur)] = cur]
                  /\ pc' = "dl_open"
             ELSE Fails /\ UNCHANGED <<bundle, bundleBy>>
  /\ UNCHANGED <<runner, status, progress, config, journal, installed, dirs,
                 desktopDir, tempFile, execBit, scratch, icon, desktop,
                 appConfig, sourceConfig, touched, copied, scratchBy, stages>>

\* x.Asset.Download(): the byte stream, or an error.
DownloadOpen ==
  /\ Running("dl_open")
  /\ \E ok \in BOOLEAN : IF ok THEN pc' = "dl_copy" ELSE Fails
  /\ UNCHANGED <<runner, status, progress, config, disk, hist>>

\* The file io.Copy writes to, and its size so far.
Written == IF build = "part_001" THEN tempFile[Id(cur)] ELSE bundle[Id(cur)]

\* One round of io.Copy(io.MultiWriter(file, x), data): a Read returns a
\* chunk, which goes to the file and to x.Write; or the end of the stream;
\* or the Read or the file's Write fails.
DownloadCopy ==
  /\ Running("dl_copy")
  /\ \/ \E l \in 1..MaxChunk :
          /\ Written + l <= MaxStream
          /\ IF build = "part_001"
               THEN /\ tempFile' = [tempFile EXCEPT ![Id(cur)] = @ + l]
                    /\ UNCHANGED bundle
               ELSE /\ bundle' = [bundle EXCEPT ![Id(cur)] = @ + l]
                    /\ UNCHANGED tempFile
          /\ progress' = [progress EXCEPT ![cur] = Write(@, l)]
          /\ UNCHANGED <<pc, copied>>
     \/ /\ copied' = [copied EXCEPT ![cur] = TRUE]
        /\ pc' = IF build = "part_001" THEN "dl_rename" ELSE "dl_chmod"
        /\ UNCHANGED <<tempFile, bundle, progress>>
     \/ Fails /\ UNCHANGED <<tempFile, bundle, progress, copied>>
  /\ UNCHANGED <<runner, status, config, journal, installed, dirs, desktopDir,
                 execBit, scratch, icon, desktop, appConfig, sourceConfig,
                 bundleBy, touched, scratchBy, stages>>

\* part_001: os.Rename(tempFile.Name(), Paths.AppImage).
DownloadRename ==
  /\ Running("dl_rename")
  /\ \E ok \in BOOLEAN :
       IF ok THEN /\ bundle' = [bundle EXCEPT ![Id(cur)] = tempFile[Id(cur)]]
                  /\ tempFile' = [tempFile EXCEPT ![Id(cur)] = NoFile]
                  /\ bundleBy' = [bundleBy EXCEPT ![Id(cur)] = cur]
                  /\ execBit' = execBit \ {Id(cur)}
                  /\ pc' = "dl_chmod"
             ELSE Fails /\ UNCHANGED <<bundle, tempFile, bundleBy, execBit>>
  /\ UNCHANGED <<runner, status, progress, config, journal, installed, dirs,
                 desktopDir, scratch, icon, desktop, appConfig, sourceConfig,
                 touched, copied, scratchBy, stages>>

\* os.Chmod(Paths.AppImage, 0755) ends Download; Install() then sets
\* x.Status and goes on to Integrate.
DownloadChmod ==
  /\ Running("dl_chmod")
  /\ \E ok \in BOOLEAN :
       IF ok THEN /\ execBit' = execBit \cup {Id(cur)}
                  /\ Stage("Download")
                  /\ status' = [status EXCEPT ![cur] = StatusAfterDownload]
                  /\ pc' = "in_mkdir"
             ELSE Fails /\ UNCHANGED <<execBit, stages, status>>
  /\ UNCHANGED <<runner, progress, config, journal, installed, dirs,
                 desktopDir, tempFile, bundle, scratch, icon, desktop,
                 appConfig, sourceConfig, bundleBy, touched, copied, scratchBy>>

Download ==
  DownloadMkdirDir \/ DownloadMkdirDesktop \/ DownloadCreateTemp
    \/ DownloadCreateFinal \/ DownloadOpen \/ DownloadCopy \/ DownloadRename
    \/ DownloadChmod

\* -------------------------------------------------------------- Integrate
\* An Integrate that makes its scratch directory with os.MkdirAll, which
\* accepts a directory that is already there.
IntegrateMkdirAll ==
  /\ Running("in_mkdir")
  /\ \E ok \in BOOLEAN :
       IF ok
         THEN /\ scratch' = scratch \cup {Id(cur)}
              /\ scratchBy' = IF Id(cur) \in scratch THEN scratchBy
                              ELSE [scratchBy EXCEPT ![Id(cur)] = cur]
              /\ pc' = "in_deflate"
         ELSE Fails /\ UNCHANGED <<scratch, scratchBy>>
  /\ UNCHANGED <<runner, status, progress, config, journal, installed, dirs,
                 desktopDir, tempFile, bundle, execBit, icon, desktop,
                 appConfig, sourceConfig, bundleBy, touched, copied, stages>>

\* os.Mkdir(tempDir): an error when the directory is already there.
IntegrateMkdir ==
  /\ Running("in_mkdir")
  /\ \E ok \in BOOLEAN :
       IF ok /\ Id(cur) \notin scratch
         THEN /\ scratch' = scratch \cup {Id(cur)}
              /\ scratchBy' = [scratchBy EXCEPT ![Id(cur)] = cur]
              /\ pc' = "in_deflate"
         ELSE Fails /\ UNCHANGED <<scratch, scratchBy>>
  /\ UNCHANGED <<runner, status, progress, config, journal, installed, dirs,
                 desktopDir, tempFile, bundle, execBit, icon, desktop,
                 appConfig, sourceConfig, bundleBy, touched, copied, stages>>

\* core.DeflateAppImage(Paths.AppImage, tempDir).  Its error returns before
\* the defer statement is reached, so nothing removes tempDir.
IntegrateDeflate ==
  /\ Running("in_deflate")
  /\ \E ok \in BOOLEAN : IF ok THEN pc' = "in_meta" ELSE Fails
  /\ UNCHANGED <<runner, status, progress, config, disk, hist>>

\* deflated.ExtractMetadata(), with os.RemoveAll(tempDir) deferred.
IntegrateMetadata ==
  /\ Running("in_meta")
  /\ \E ok \in BOOLEAN :
       IF ok THEN pc' = "in_icon" /\ UNCHANGED scratch
             ELSE Fails /\ scratch' = RemoveAll(scratch, Id(cur))
  /\ UNCHANGED <<runner, status, progress, config, journal, installed, dirs,
                 desktopDir, tempFile, bundle, execBit, icon, desktop,
                 appConfig, sourceConfig, hist>>

\* metadata.CopyIconFile(Paths).
IntegrateIcon ==
  /\ Running("in_icon")
  /\ \E ok \in BOOLEAN :
       IF ok THEN /\ icon' = icon \cup {Id(cur)}
                  /\ pc' = "in_desktop"
                  /\ UNCHANGED scratch
             ELSE /\ Fails
                  /\ scratch' = RemoveAll(scratch, Id(cur))
                  /\ UNCHANGED icon
  /\ UNCHANGED <<runner, status, progress, config, journal, installed, dirs,
                 desktopDir, tempFile, bundle, execBit, desktop, appConfig,
                 sourceConfig, hist>>

\* metadata.InstallDesktopFile(Paths), then Integrate returns.
IntegrateDesktop ==
  /\ Running("in_desktop")
  /\ \E ok \in BOOLEAN :
       IF ok THEN /\ desktop' = desktop \cup {Id(cur)}
                  /\ Stage("Integrate")
                  /\ pc' = "sc_app"
             ELSE Fails /\ UNCHANGED <<desktop, stages>>
  /\ scratch' = RemoveAll(scratch, Id(cur))
  /\ UNCHANGED <<runner, status, progress, config, journal, installed, dirs,
                 desktopDir, tempFile, bundle, execBit, icon, appConfig,
                 sourceConfig, bundleBy, touched, copied, scratchBy>>

Integrate ==
  IntegrateMkdir \/ IntegrateDeflate \/ IntegrateMetadata \/ IntegrateIcon
    \/ IntegrateDesktop

\* ------------------------------------------------------------- SaveConfig
\* core.SaveAppConfig(Paths.Config, x.App).
SaveAppConfig ==
  /\ Running("sc_app")
  /\ \E ok \in BOOLEAN :
       IF ok THEN appConfig' = appConfig \cup {Id(cur)} /\ pc' = "sc_source"
             ELSE Fails /\ UNCHANGED appConfig
  /\ UNCHANGED <<runner, status, progress, config, journal, installed, dirs,
                 desktopDir, tempFile, bundle, execBit, scratch, icon, desktop,
                 sourceConfig, hist>>

\* core.SaveSourceConfig(Paths.SourceConfig, x.Source).
SaveSourceConfig ==
  /\ Running("sc_source")
  /\ \E ok \in BOOLEAN :
       IF ok THEN sourceConfig' = sourceConfig \cup {Id(cur)} /\ pc' = "sc_read"
             ELSE Fails /\ UNCHANGED sourceConfig
  /\ UNCHANGED <<runner, status, progress, config, journal, installed, dirs,
                 desktopDir, tempFile, bundle, execBit, scratch, icon, desktop,
                 appConfig, hist>>

\* A SaveConfig that starts from an empty registry instead of reading it.
ReadConfigEmpty ==
  /\ Running("sc_read")
  /\ \E ok \in BOOLEAN :
       IF ok THEN config' = {} /\ pc' = "sc_save"
             ELSE Fails /\ UNCHANGED config
  /\ UNCHANGED <<runner, status, progress, disk, hist>>

\* config, err := core.ReadConfig().
ReadConfig ==
  /\ Running("sc_read")
  /\ \E ok \in BOOLEAN :
       IF ok THEN config' = installed /\ pc' = "sc_save"
             ELSE Fails /\ UNCHANGED config
  /\ UNCHANGED <<runner, status, progress, disk, hist>>

\* config.Installed[x.App.Id] = Paths.Dir; return core.SaveConfig(config).
SaveRegistry ==
  /\ Running("sc_save")
  /\ config' = config \cup {Id(cur)}
  /\ \E ok \in BOOLEAN :
       IF ok THEN /\ installed' = config'
                  /\ Stage("SaveConfig")
                  /\ pc' = "ret_ok"
             ELSE Fails /\ UNCHANGED <<installed, stages>>
  /\ UNCHANGED <<runner, status, progress, journal, dirs, desktopDir,
                 tempFile, bundle, execBit, scratch, icon, desktop, appConfig,
                 sourceConfig, bundleBy, touched, copied, scratchBy>>

SaveConfig == SaveAppConfig \/ SaveSourceConfig \/ ReadConfig \/ SaveRegistry

Install == Download \/ Integrate \/ SaveConfig

\* The process is killed: what is on disk stays as it is.
Kill ==
  /\ alive /\ pc # "returned"
  /\ alive' = FALSE
  /\ UNCHANGED <<env, mem, disk, hist>>

Next == InstallApps \/ Install \/ Kill

Spec == Init /\ [][Next]_vars

\* The same batches, with what was on disk when the batch started kept.
InitBatch == Start(Batches, "begin", "none", {FALSE}, TRUE)
SpecBatch == InitBatch /\ [][Next]_vars

\* ------------------------------------------- the install github command
\* What the steps of the command's Action leave alone, besides pc.
idle == <<build, start, tick, jrn, alive, apps, cur, success, ret, status,
          progress, printCycle, started, config, disk, hist>>

Checked(field, outcome) == chk' = [chk EXCEPT ![field] = outcome]
\* return err / return errors.New(...)
ReturnsError == cmdOut' = "error" /\ cmdPc' = "done"
\* return nil
ReturnsNil == cmdOut' = "nil" /\ cmdPc' = "done"

\* config, err := core.GetConfig().
CmdGetConfig ==
  /\ alive /\ cmdPc = "config"
  /\ \E ok \in BOOLEAN : IF ok THEN cmdPc' = "args" /\ UNCHANGED cmdOut
                               ELSE ReturnsError
  /\ UNCHANGED <<idle, pc, assumeYes, chk>>

\* args.Len() == 0, args.Len() > 1.
CmdArgs ==
  /\ alive /\ cmdPc = "args"
  /\ \E n \in {"none", "one", "many"} :
       /\ Checked("nargs", n)
       /\ IF n = "one" THEN cmdPc' = "url" /\ UNCHANGED cmdOut
                       ELSE ReturnsError
  /\ UNCHANGED <<idle, pc, assumeYes>>

\* core.ParseGithubRepoUrl(url) and !isValidUrl.
CmdParseUrl ==
  /\ alive /\ cmdPc = "url"
  /\ \E valid \in BOOLEAN :
       IF valid THEN Checked("url", "valid") /\ cmdPc' = "id" /\ UNCHANGED cmdOut
                ELSE Checked("url", "invalid") /\ ReturnsError
  /\ UNCHANGED <<idle, pc, assumeYes>>

\* appId = utils.CleanId(appId) and appId == "".
CmdCleanId ==
  /\ alive /\ cmdPc = "id"
  /\ \E empty \in BOOLEAN :
       IF empty THEN Checked("id", "empty") /\ ReturnsError
                ELSE Checked("id", "nonempty") /\ cmdPc' = "release"
                       /\ UNCHANGED cmdOut
  /\ UNCHANGED <<idle, pc, assumeYes>>

\* release, err := source.FetchAptRelease().
CmdFetchRelease ==
  /\ alive /\ cmdPc = "release"
  /\ \E ok \in BOOLEAN :
       IF ok THEN Checked("release", "fetched") /\ cmdPc' = "asset"
                    /\ UNCHANGED cmdOut
             ELSE Checked("release", "failed") /\ ReturnsError
  /\ UNCHANGED <<idle, pc, assumeYes>>

\* A ChooseAptAppImageAsset whose match level is not looked at.
CmdChooseAssetAny ==
  /\ alive /\ cmdPc = "asset"
  /\ \E level \in {"0", "1", "2"} :
       Checked("match", level) /\ cmdPc' = "reinstall" /\ UNCHANGED cmdOut
  /\ UNCHANGED <<idle, pc, assumeYes>>

\* matchLevel, asset := core.ChooseAptAppImageAsset(...) and matchLevel == 0.
CmdChooseAsset ==
  /\ alive /\ cmdPc = "asset"
  /\ \E level \in {"0", "1", "2"} :
       /\ Checked("match", level)
       /\ IF level = "0" THEN ReturnsError
                         ELSE cmdPc' = "reinstall" /\ UNCHANGED cmdOut
  /\ UNCHANGED <<idle, pc, assumeYes>>

\* utils.PromptYesNoInput: the answer, or an error reading it.
Answers == {"yes", "no", "error"}

\* What follows a prompt, which is skipped ("assumed") under --assume-yes.
Prompted(field, answer, next) ==
  /\ Checked(field, answer)
  /\ IF answer \in {"yes", "assumed"} THEN cmdPc' = next /\ UNCHANGED cmdOut
     ELSE IF answer = "no" THEN ReturnsNil
     ELSE ReturnsError

\* if _, ok := config.Installed[appId]; ok { ... "re-install ...?" }.
CmdReinstall ==
  /\ alive /\ cmdPc = "reinstall"
  /\ IF Id(1) \notin installed
       THEN Checked("reinstall", "new") /\ cmdPc' = "confirm" /\ UNCHANGED cmdOut
     ELSE IF assumeYes THEN Prompted("reinstall", "assumed", "confirm")
     ELSE \E answer \in Answers : Prompted("reinstall", answer, "confirm")
  /\ UNCHANGED <<idle, pc, assumeYes>>

\* if !assumeYes { ... "Do you want to proceed?" }.
CmdConfirm ==
  /\ alive /\ cmdPc = "confirm"
  /\ IF assumeYes THEN Prompted("confirm", "assumed", "install")
     ELSE \E answer \in Answers : Prompted("confirm", answer, "install")
  /\ UNCHANGED <<idle, pc, assumeYes>>

\* installed, _ := InstallApps([]InstallableApp{{...}}): the call.
CmdInstallApps ==
  /\ alive /\ cmdPc = "install" /\ pc = "cmd"
  /\ cmdPc' = "installing"
  /\ pc' = "begin"
  /\ UNCHANGED <<idle, cmdOut, assumeYes, chk>>

\* An Action that ends with an error when the app was not installed.
ActionResultSurfaced(n) == IF n # 1 THEN "error" ELSE "nil"

\* if installed != 1 { return nil } ... return nil.
ActionResult(n) == IF n # 1 THEN "nil" ELSE "nil"

\* InstallApps has returned to the Action.
CmdResult ==
  /\ alive /\ cmdPc = "installing" /\ pc = "returned"
  /\ cmdOut' = ActionResult(ret[1])
  /\ cmdPc' = "done"
  /\ UNCHANGED <<idle, pc, assumeYes, chk>>

Action ==
  CmdGetConfig \/ CmdArgs \/ CmdParseUrl \/ CmdCleanId \/ CmdFetchRelease
    \/ CmdChooseAsset \/ CmdReinstall \/ CmdConfirm \/ CmdInstallApps
    \/ CmdResult

\* The command is given one application; the process can be killed while it
\* installs.
InitCmd == Start([{1} -> [id : Ids]], "cmd", "config", BOOLEAN, TRUE)
NextCmd == Action \/ InstallApps \/ Install \/ Kill
SpecCmd == InitCmd /\ [][NextCmd]_vars

\* ------------------------------------------------------ the status ticker
\* StartStatusTicker's goroutine, for range ticker.C { x.PrintStatus() }.
\* Install() creates the ticker on entry and its deferred ticker.Stop() ends
\* the ticks on return: a tick is received only while Install() runs.  Stop
\* does not wait for the goroutine, which goes on with the PrintStatus it is
\* in.  x.PrintCycle++ is a read and a write, with no lock around them.
TickerPrintBegin(i) ==
  /\ alive /\ i = cur /\ pc \in InstallPcs
  /\ tickPc[i] = "wait"
  /\ printCycle[i] < MaxPrintCycle
  /\ tickPc' = [tickPc EXCEPT ![i] = "print"]
  /\ tickRead' = [tickRead EXCEPT ![i] = printCycle[i]]
  /\ UNCHANGED <<build, start, cmd, jrn, alive, mem, disk, hist>>

TickerPrintEnd(i) ==
  /\ alive /\ tickPc[i] = "print"
  /\ printCycle' = [printCycle EXCEPT ![i] = tickRead[i] + 1]
  /\ tickPc' = [tickPc EXCEPT ![i] = "wait"]
  /\ UNCHANGED <<build, start, tickRead, cmd, jrn, alive, apps, cur, pc,
                 success, ret, status, progress, started, config, disk, hist>>

StatusTicker == \E i \in DOMAIN apps : TickerPrintBegin(i) \/ TickerPrintEnd(i)

\* A batch on a machine where nothing was installed before, run to its end.
InitTicker == Init /\ dirs = {}
NextTicker == InstallApps \/ Install \/ StatusTicker
SpecTicker == InitTicker /\ [][NextTicker]_vars

\* ------------------------------------------- the journal, under two runs
\* Two runs of InstallApps, run r installing apps[r], seen only through
\* their core.UpdateTransactions calls.  The call takes the journal's lock,
\* decodes the file, applies the mutator, writes the file back and releases
\* the lock.  A run that is killed no longer holds the lock, and is started
\* again.
offJournal == <<build, start, tick, cmd, alive, mem, hist, installed, dirs,
                desktopDir, tempFile, bundle, execBit, scratch, icon, desktop,
                appConfig, sourceConfig>>

\* The mutators InstallApps passes: PendingInstallations[id] = ..., and
\* delete(PendingInstallations, id).
Mutated(j, op, id) == IF op = "register" THEN j \cup {id} ELSE j \ {id}

At(r, where) == jpc' = [jpc EXCEPT ![r].at = where]

JournalCall(r) ==
  /\ jpc[r].at = "idle"
  /\ \E op \in {"register", "clear"} :
       jpc' = [jpc EXCEPT ![r].at = "called", ![r].op = op]
  /\ UNCHANGED <<offJournal, journal, jlock, jlocal>>

\* An acquire that does not wait for the lock to be free.
JournalAcquireShared(r) ==
  /\ jpc[r].at = "called"
  /\ jlock' = r
  /\ At(r, "locked")
  /\ UNCHANGED <<offJournal, journal, jlocal>>

JournalAcquire(r) ==
  /\ jpc[r].at = "called" /\ jlock = 0
  /\ jlock' = r
  /\ At(r, "locked")
  /\ UNCHANGED <<offJournal, journal, jlocal>>

JournalRead(r) ==
  /\ jpc[r].at = "locked"
  /\ jlocal' = [jlocal EXCEPT ![r] = journal]
  /\ At(r, "read")
  /\ UNCHANGED <<offJournal, journal, jlock>>

JournalWrite(r) ==
  /\ jpc[r].at = "read"
  /\ journal' = Mutated(jlocal[r], jpc[r].op, Id(r))
  /\ At(r, "written")
  /\ UNCHANGED <<offJournal, jlock, jlocal>>

JournalRelease(r) ==
  /\ jpc[r].at = "written"
  /\ jlock' = IF jlock = r THEN 0 ELSE jlock
  /\ jpc' = [jpc EXCEPT ![r] = Idle(jpc[r].op)]
  /\ UNCHANGED <<offJournal, journal, jlocal>>

JournalCrash(r) ==
  /\ jpc[r].at # "idle"
  /\ jlock' = IF jlock = r THEN 0 ELSE jlock
  /\ jpc' = [jpc EXCEPT ![r] =
               Idle(IF jpc[r].at = "written" THEN jpc[r].op ELSE jpc[r].last)]
  /\ UNCHANGED <<offJournal, journal, jlocal>>

Journal ==
  \E r \in Runs :
    JournalCall(r) \/ JournalAcquire(r) \/ JournalRead(r) \/ JournalWrite(r)
      \/ JournalRelease(r) \/ JournalCrash(r)

\* The two runs install different applications.
InitJournal ==
  Start({b \in [Runs -> [id : Ids]] : b[1].id # b[2].id}, "journal", "none",
        {FALSE}, FALSE)
SpecJournal == InitJournal /\ [][Journal]_vars

\* ------------------------------------------------------------ properties
Did(i, s) == \E n \in DOMAIN stages[i] : stages[i][n] = s

\* C1: at every point, killed or not, an install that has changed the
\* filesystem and whose entry the runner has not yet gone on to clear
\* (Download, Integrate, SaveConfig, SaveConfig's successful return, and the
\* failure path) has its app id in the journal.
C1_JournalEntryWhileInFlight ==
  \A i \in DOMAIN apps :
    (i = cur /\ touched[i] /\ pc # "clear") => Id(i) \in journal

\* C2: once the runner has finished its step for an app whose Download,
\* Integrate and SaveConfig all succeeded, the journal holds no entry for
\* that app's id.
C2_NoEntryAfterSuccess ==
  (cur > 1 /\ (pc = "begin" \/ (pc = "returned" /\ cur = N + 1)))
    => Id(cur - 1) \notin journal

\* C3: when InstallApps has returned after an install that failed in
\* Download or Integrate, the journal holds the entry of that app's id.
C3_EntryKeptOnFailure ==
  (pc = "returned" /\ cur <= N /\ ~Did(cur, "Integrate"))
    => Id(cur) \in journal

\* C4: a file that a Download of this batch put at the final bundle path is
\* never shorter than its final size: the copy has ended and the file holds
\* every byte that was mirrored into the progress counter.
C4_DownloadAtomic ==
  \A id \in Ids :
    bundleBy[id] # 0 =>
      copied[bundleBy[id]] /\ bundle[id] = progress[bundleBy[id]]

\* C5: once an Integrate that created the scratch directory has returned,
\* on whatever path, the scratch directory is gone.
C5_ScratchRemoved ==
  \A id \in Ids :
    (scratchBy[id] # 0 /\ ~(scratchBy[id] = cur /\ pc \in IntegratePcs))
      => id \notin scratch

\* C6: when InstallApps has returned and request k was the first to fail,
\* it returned (k-1, N-(k-1)) and nothing was done for requests k+1..N: not
\* started, status and counters as constructed, no entry registered, no
\* stage run.  When no request failed it returned (N, 0).
Min(S) == CHOOSE m \in S : \A n \in S : m <= n
FailedApps ==
  {i \in DOMAIN apps : started[i] /\ status[i] = InstallableAppFailed}
NeverAttempted(j) ==
  /\ ~started[j] /\ status[j] = InstallableAppFailed
  /\ printCycle[j] = 0 /\ progress[j] = 0
  /\ stages[j] = <<>> /\ ~touched[j] /\ ~copied[j]
C6_StopAtFirstFailure ==
  pc = "returned" =>
    IF FailedApps = {} THEN ret = <<N, 0>>
    ELSE LET k == Min(FailedApps) IN
           /\ ret = <<k - 1, N - (k - 1)>>
           /\ \A j \in (k + 1)..N : NeverAttempted(j)
C6_Witness ==
  /\ pc = "returned"
  /\ \E k \in 1..(N - 1) :
       /\ k = Min(FailedApps \cup {N})
       /\ k \in FailedApps
       /\ ret = <<k - 1, N - (k - 1)>>
       /\ NeverAttempted(k + 1)

\* C7, as claimed: every change of an app's status is one of Downloading ->
\* Integrating, Integrating -> Installed, Downloading -> Failed, Integrating
\* -> Failed; Integrating is entered only once Download succeeded, Installed
\* only once SaveConfig succeeded, and Install() runs only for an app that
\* is Downloading or Integrating.
Transitions ==
  { <<InstallableAppDownloading, InstallableAppIntegrating>>,
    <<InstallableAppIntegrating, InstallableAppInstalled>>,
    <<InstallableAppDownloading, InstallableAppFailed>>,
    <<InstallableAppIntegrating, InstallableAppFailed>> }
StatusStep(i, allowed) ==
  /\ status'[i] # status[i] => <<status[i], status'[i]>> \in allowed
  /\ (status'[i] # status[i] /\ status'[i] = InstallableAppIntegrating)
       => Did(i, "Download")'
  /\ (status'[i] # status[i] /\ status'[i] = InstallableAppInstalled)
       => Did(i, "SaveConfig")
  /\ (pc' \in InstallPcs /\ i = cur')
       => status'[i] \in {InstallableAppDownloading, InstallableAppIntegrating}
C7_StatusTransitions ==
  [][\A i \in DOMAIN apps : StatusStep(i, Transitions)]_vars

\* C7, amended: as above, except that an app the runner has not started yet
\* holds the zero value of the status, InstallableAppFailed, and the runner
\* takes it from there to Downloading; once started, an app that is
\* Installed or Failed keeps that status.
C7_StatusTransitionsOnceStarted ==
  [][\A i \in DOMAIN apps :
       StatusStep(i, IF started[i] THEN Transitions
                     ELSE Transitions \cup
                       {<<InstallableAppFailed, InstallableAppDownloading>>})]_vars
C7_Witness ==
  \E i, j \in DOMAIN apps :
    /\ status[i] = InstallableAppInstalled
    /\ started[j] /\ status[j] = InstallableAppFailed

\* C8: within one install the stages succeed in the order Download,
\* Integrate, SaveConfig, clearance, none skipped; Download runs before any
\* of them succeeded, Integrate only after Download succeeded, SaveConfig
\* only after Integrate succeeded, and an entry leaves the journal only in
\* the runner's clearing step for that app, after its SaveConfig succeeded.
Pipeline == <<"Download", "Integrate", "SaveConfig", "Clear">>
IsPrefix(a, b) == Len(a) <= Len(b) /\ \A n \in 1..Len(a) : a[n] = b[n]
StagesOf(i) == SelectSeq(stages[i], LAMBDA s : s # "Register")
StagesInOrder ==
  /\ \A i \in DOMAIN apps : IsPrefix(StagesOf(i), Pipeline)
  /\ pc \in DownloadPcs => StagesOf(cur) = <<>>
  /\ pc \in IntegratePcs => StagesOf(cur) = <<"Download">>
  /\ pc \in SaveConfigPcs => StagesOf(cur) = <<"Download", "Integrate">>
  /\ pc \in {"ret_ok", "clear"}
       => StagesOf(cur) = <<"Download", "Integrate", "SaveConfig">>
C8_StageOrder ==
  /\ []StagesInOrder
  /\ [][\A id \in journal \ journal' :
          pc = "clear" /\ id = Id(cur) /\ Did(cur, "SaveConfig")]_vars
C8_Witness ==
  \E i \in DOMAIN apps :
    /\ stages[i] = <<"Register", "Download", "Integrate", "SaveConfig", "Clear">>
    /\ Id(i) \notin journal

\* C9: Install() runs for an app only when the call that registered its
\* pending installation succeeded, and an app whose entry could not be
\* cleared is not left marked Installed and counted as a success.
C9_JournalFailureIsFatal ==
  /\ pc \in InstallPcs => Did(cur, "Register")
  /\ \A i \in DOMAIN apps :
       (i < cur /\ status[i] = InstallableAppInstalled) => Did(i, "Clear")

\* C10, as claimed: after a successful Download the progress counter equals
\* the asset's declared size.
C10_ProgressEqualsSize ==
  \A i \in DOMAIN apps : Did(i, "Download") => progress[i] = AssetSize

\* C10, amended: after a successful Download the progress counter equals
\* the number of bytes the stream delivered, which is the size of the
\* bundle that Download wrote.
C10_ProgressEqualsWritten ==
  \A i \in DOMAIN apps :
    (Did(i, "Download") /\ bundleBy[Id(i)] = i)
      => progress[i] = bundle[Id(i)]
C10_Witness ==
  \E i \in DOMAIN apps :
    /\ Did(i, "Download") /\ bundleBy[Id(i)] = i
    /\ progress[i] = bundle[Id(i)]
    /\ progress[i] # AssetSize

\* C11: when an install fails the app is marked Failed and the command's
\* Action ends with the error, not with success.
C11_FailureSurfaced ==
  (cmdPc = "done" /\ pc = "returned" /\ ret[1] # 1)
    => (status[1] = InstallableAppFailed /\ cmdOut = "error")

\* C12: once Install() has returned for an app, no PrintStatus of its ticker
\* is running: none interleaves with the runner's final print or with the
\* next app.
C12_TickerStopped ==
  \A i \in DOMAIN apps :
    (i # cur \/ pc \notin InstallPcs) => tickPc[i] = "wait"

\* C14: a step of the ticker writes none of Status, Progress, PrintCycle and
\* StartedAt.
C14_TickerOnlyReads ==
  [][tickPc' # tickPc => UNCHANGED <<status, progress, printCycle, started>>]_vars

\* C13: when Integrate has failed after a successful Download, the app is
\* Failed, the bundle written by Download is at the final path, SaveConfig
\* was not invoked (no app config, no source config written, the registry as
\* it was) and the journal holds the app's id.
C13_IntegrateFailure ==
  (alive /\ pc = "returned" /\ Did(1, "Download") /\ ~Did(1, "Integrate"))
    => /\ status[1] = InstallableAppFailed
       /\ bundle[Id(1)] # NoFile /\ bundleBy[Id(1)] = 1
       /\ appConfig = start.appConfig
       /\ sourceConfig = start.sourceConfig
       /\ installed = start.installed
       /\ Id(1) \in journal

\* SaveConfig of app i returned an error.
SaveConfigFailed(i) ==
  /\ i = cur /\ pc \in {"ret_err", "returned"}
  /\ Did(i, "Integrate") /\ ~Did(i, "SaveConfig")

CommitOrder ==
  /\ pc \in {"sc_source", "sc_read", "sc_save"} => Id(cur) \in appConfig
  /\ pc \in {"sc_read", "sc_save"} => Id(cur) \in sourceConfig
  /\ pc = "sc_save" => config = installed
  /\ \A i \in DOMAIN apps :
       /\ Did(i, "SaveConfig") => Id(i) \in installed
       /\ SaveConfigFailed(i) =>
            /\ ~Did(i, "Clear")
            /\ (alive /\ pc = "returned") => status[i] = InstallableAppFailed

CommitStep ==
  /\ installed' # installed =>
       /\ pc = "sc_save" /\ pc' = "ret_ok"
       /\ Id(cur) \in appConfig /\ Id(cur) \in sourceConfig
       /\ installed' = installed \cup {Id(cur)}
  /\ (pc \in SaveConfigPcs /\ pc' \notin SaveConfigPcs /\ alive') =>
       \/ pc' = "ret_ok" /\ pc = "sc_save" /\ Id(cur) \in installed'
       \/ pc' = "ret_err" /\ installed' = installed
  /\ (pc = "ret_err" /\ pc' = "returned") =>
       /\ status'[cur] = InstallableAppFailed
       /\ journal' = journal

\* C15: SaveConfig writes the app config, the source config, reads the
\* registry, adds id -> directory and persists it, in that order; when a step
\* fails it returns the error with the registry as it was, the app becomes
\* Failed and its journal entry is not cleared; after a successful SaveConfig
\* the registry holds the id.
C15_CommitPoint == []CommitOrder /\ [][CommitStep]_vars

C15_Witness ==
  /\ alive /\ N = 2 /\ cur = 2 /\ pc = "returned"
  /\ Did(1, "SaveConfig") /\ Id(1) \in installed
  /\ SaveConfigFailed(2) /\ Id(2) \in appConfig /\ Id(2) \in sourceConfig
  /\ Id(2) \notin installed /\ Id(2) \in journal

\* The mutation of run r that the journal has to show.
Shown(r) == IF jpc[r].at = "written" THEN jpc[r].op ELSE jpc[r].last

\* C16: the journal's read-modify-write is one critical section: a run
\* decodes and writes the journal only while it holds the lock alone, what it
\* decoded is the journal as it is, and the journal shows the last mutation
\* each run completed, whatever the other run did since.
C16_JournalAtomic ==
  \A r \in Runs :
    /\ jpc[r].at \in {"locked", "read", "written"} => jlock = r
    /\ jpc[r].at = "read" => jlocal[r] = journal
    /\ Shown(r) = "register" => Id(r) \in journal
    /\ Shown(r) = "clear" => Id(r) \notin journal

C16_Witness ==
  /\ jpc[1] = Idle("register") /\ Id(1) \in journal
  /\ jpc[2].at = "written" /\ jpc[2].op = "clear" /\ jpc[2].last = "register"
  /\ Id(2) \notin journal
  /\ dirs = {}

\* The batch has pairwise distinct ids, none of them in the journal when the
\* batch started.
FreshBatch ==
  /\ \A i, j \in DOMAIN apps : Id(i) = Id(j) => i = j
  /\ \A i \in DOMAIN apps : Id(i) \notin start.journal

\* C17: when InstallApps returns s successes for such a batch, exactly the
\* first s apps are Installed, with no journal entry; at most the app after
\* them is Failed, and it is the only one of the batch with a journal entry;
\* the registry gained exactly the ids of the first s apps.
C17_BatchEnd ==
  (alive /\ pc = "returned" /\ FreshBatch) =>
    LET s == ret[1] IN
    /\ \A i \in DOMAIN apps :
         /\ status[i] = InstallableAppInstalled <=> i <= s
         /\ status[i] = InstallableAppFailed => i = s + 1
         /\ Id(i) \in journal <=> (i = s + 1)
    /\ installed = start.installed \cup {Id(i) : i \in 1..s}

\* Integrate of the current app starts with <app dir>/temp already there.
ScratchPreExists == pc = "in_mkdir" /\ Id(cur) \in scratch

ScratchStep ==
  /\ (ScratchPreExists /\ alive') =>
       /\ pc' = "ret_err"
       /\ scratch' = scratch /\ icon' = icon /\ desktop' = desktop
  /\ pc \in {"begin", "register", "ret_err"} \cup DownloadPcs =>
       scratch' = scratch

\* C18: an Integrate that starts with <app dir>/temp already there returns an
\* error without running the extractor, without writing the icon or the
\* desktop file and without removing the directory; nothing before Integrate
\* or on the failure path removes it, so an Integrate that succeeded made its
\* scratch directory itself.
C18_ScratchPreExisting ==
  /\ [][ScratchStep]_vars
  /\ [](\A i \in DOMAIN apps : Did(i, "Integrate") => scratchBy[Id(i)] >= i)

C18_Witness ==
  /\ alive /\ pc = "returned" /\ cur = 1
  /\ Did(1, "Download") /\ ~Did(1, "Integrate")
  /\ Id(1) \in scratch /\ scratchBy[Id(1)] = 0
  /\ Id(1) \notin icon /\ Id(1) \notin desktop

\* Every check of the Action passed and every prompt was confirmed or skipped
\* under --assume-yes.
AllChecksPassed ==
  /\ chk.nargs = "one" /\ chk.url = "valid" /\ chk.id = "nonempty"
  /\ chk.release = "fetched" /\ chk.match \in {"1", "2"}
  /\ chk.reinstall \in {"new", "yes", "assumed"}
  /\ chk.confirm \in {"yes", "assumed"}
  /\ "assumed" \in {chk.reinstall, chk.confirm} => assumeYes
  /\ chk.reinstall = "new" <=> Id(1) \notin start.installed

\* C19: the command reaches InstallApps, and so changes the journal, the
\* filesystem or the registry, only after every check passed; when the user
\* declines the re-install of an app in the registry, or the final prompt,
\* the command returns with nothing changed.
C19_GuardedInstall ==
  /\ pc # "cmd" => AllChecksPassed
  /\ disk # start.disk => pc # "cmd"
  /\ chk.reinstall = "no" => Id(1) \in start.installed
  /\ (cmdPc = "done" /\ "no" \in {chk.reinstall, chk.confirm}) =>
       /\ cmdOut = "nil" /\ pc = "cmd" /\ disk = start.disk

C19_Witness ==
  /\ cmdPc = "done" /\ cmdOut = "nil" /\ ~assumeYes
  /\ chk.reinstall = "yes" /\ chk.confirm = "no"
  /\ disk = start.disk
====
